---- MODULE Spec2Model ----
(***************************************************************************)
(* Model of Encryption.encrypt (olm outbound session manager): one call    *)
(* over a batch of devices.  Every synchronous stretch of the JavaScript    *)
(* (the code between two awaits on an external promise) is one action or a  *)
(* chain of actions that nothing else can interleave with; the completions *)
(* of storage reads, of the key-claim request and of the write             *)
(* transactions are the events that the environment schedules.             *)
(***************************************************************************)
EXTENDS Integers, Sequences, FiniteSets, TLC

\* ------------------------------------------------------------------ bounds
\* number of device identities in the batch handed to encrypt
NDev == 2
\* longest list of session ids the store returns for one device
MaxIds == 2

\* ------------------------------------------------------------ value domain
Null == "null"
Handle == "olmSession"
OTK_ALGORITHM == "signed_curve25519"
UNSIGNED_ALGORITHM == "curve25519"

Dev == 1 .. NDev
\* the device list in the order the caller passes it
devices == [i \in 1 .. NDev |-> i]

\* A device identity {userId, deviceId, curve25519Key, ed25519Key} is named by
\* its index: the devices of a batch are distinct, and so are their keys.

\* Session ids are strings; the JavaScript < on strings compares UTF-16 code
\* units from the left.
SessionIdStrings == {"s1", "s10", "s3"}
CodeUnits(s) ==
    CASE s = "s1" -> <<115, 49>>
      [] s = "s10" -> <<115, 49, 48>>
      [] s = "s3" -> <<115, 51>>
      [] OTHER -> << >>

Min2(a, b) == IF a < b THEN a ELSE b

\* a < b on strings
StrLess(a, b) ==
    LET x == CodeUnits(a)
        y == CodeUnits(b)
        n == Min2(Len(x), Len(y))
        Diff == {i \in 1 .. n : x[i] # y[i]}
    IN  IF Diff = {}
        THEN Len(x) < Len(y)
        ELSE LET k == CHOOSE i \in Diff : \A j \in Diff : i <= j
             IN  x[k] < y[k]

\* !v of JavaScript for the values a session id can take
Falsy(v) == v = Null \/ v = ""

Range(s) == {s[i] : i \in 1 .. Len(s)}

RECURSIVE ReduceFirst(_, _)
\* sessionIds.reduce(callback, first), the callback of findFirstSessionId
ReduceFirst(first, sessionIds) ==
    IF sessionIds = << >>
    THEN first
    ELSE LET sessionId == Head(sessionIds)
         IN  ReduceFirst(IF Falsy(first) \/ StrLess(sessionId, first)
                         THEN sessionId
                         ELSE first,
                         Tail(sessionIds))

\* findFirstSessionId with the comparison turned around
findFirstSessionId_Greater(sessionIds) ==
    IF sessionIds = << >>
    THEN Null
    ELSE CHOOSE s \in Range(sessionIds) :
            \A t \in Range(sessionIds) : s = t \/ StrLess(t, s)

findFirstSessionId(sessionIds) == ReduceFirst(Null, sessionIds)

\* the lists of distinct session ids a getSessionIds read can return
IdLists ==
    {s \in UNION {[1 .. n -> SessionIdStrings] : n \in 0 .. MaxIds} :
        \A i, j \in 1 .. Len(s) : i # j => s[i] # s[j]}

RECURSIVE SelectSeq2(_, _)
\* the subsequence of seq whose elements are in S (Array.prototype.filter)
SelectSeq2(seq, S) ==
    IF seq = << >>
    THEN << >>
    ELSE IF Head(seq) \in S
         THEN <<Head(seq)>> \o SelectSeq2(Tail(seq), S)
         ELSE SelectSeq2(Tail(seq), S)

\* ------------------------------------------------------------------- state
VARIABLES
    pc,                         \* where the encrypt call stands
    blockScoped,                \* the build keeps const block scoped (native modules)
    sessionIdsForDevice,        \* _findExistingSessions: what getSessionIds returned
    devicesWithoutSession,      \* _findExistingSessions: its first result
    existingEncryptionTargets,  \* _findExistingSessions: its second result
    target,                     \* the EncryptionTarget of each device, if one was made
    claimResponse,              \* what hsApi.claimKeys(...).response() gave
    claimRequests,              \* the hsApi.claimKeys requests sent, as device sets
    newEncryptionTargets,       \* _createNewSessions: the targets made from the claim
    encryptionTargets,          \* encrypt: the local list the finally block disposes
    olm,                        \* the native olm session object made for each device
    failed,                     \* _loadSessions: the flag shared by the load tasks
    load,                       \* _loadSessions: each load task
    loadAll,                    \* _loadSessions: the Promise.all over the load tasks
    eagerTxn,                   \* the transaction of the unawaited _storeSessions
    finalTxn,                   \* the transaction of the awaited _storeSessions
    store,                      \* olmSessions: the record this call left per device
    idx,                        \* encrypt: position of encryptionTargets.map
    messages,                   \* encrypt: the EncryptedMessages built so far
    result                      \* how the promise returned by encrypt settled

vars == <<pc, blockScoped, sessionIdsForDevice, devicesWithoutSession,
          existingEncryptionTargets, target, claimResponse, claimRequests,
                   newEncryptionTargets,
          encryptionTargets, olm, failed, load, loadAll, eagerTxn, finalTxn,
          store, idx, messages, result>>

\* ------------------------------------------------------- EncryptionTarget
NoTarget == [made |-> FALSE, oneTimeKey |-> Null, sessionId |-> Null, session |-> Null]

\* new EncryptionTarget(device, oneTimeKey, sessionId)
EncryptionTarget(oneTimeKey, sessionId) ==
    [made |-> TRUE, oneTimeKey |-> oneTimeKey, sessionId |-> sessionId, session |-> Null]

fromOTK(oneTimeKey) == EncryptionTarget(oneTimeKey, Null)

\* a target for an existing session that is given a one-time key as well
fromSessionId_WithKey(sessionId) == EncryptionTarget("otk", sessionId)

fromSessionId(sessionId) == EncryptionTarget(Null, sessionId)

\* target.dispose() for every target of the list: free() on each session that
\* is set, applied to the native objects o with the targets as in t
dispose(o, t, targets) ==
    [d \in Dev |->
        IF d \in Range(targets) /\ t[d].session # Null
        THEN [o[d] EXCEPT !.frees = @ + 1]
        ELSE o[d]]

\* allocs: native sessions made for the device; frees: calls of free();
\* ratchet: messages encrypted; usedAfterFree: encrypt or pickle after free()
NoSession == [allocs |-> 0, frees |-> 0, ratchet |-> 0, usedAfterFree |-> FALSE]

NoTxn == [status |-> "none", writes |-> {}]

NoRecord == [txn |-> "none", ratchet |-> 0, over |-> "none"]

\* the promise of encrypt: at is where the call stood when it settled
Running == [status |-> "running", error |-> Null, messages |-> << >>, at |-> Null]

Raised(err, at) == [status |-> "raised", error |-> err, messages |-> << >>, at |-> at]

Returned(msgs, at) == [status |-> "returned", error |-> Null, messages |-> msgs, at |-> at]

\* ------------------------------------------------------------ claim response
\* What the response holds under one_time_keys[userId][deviceId]: nothing, an
\* empty object, or one key "<alg>:<keyId>" with a key section signed by the
\* ed25519 key of device signer (0 where there is no key section).
KeyEntries ==
    {[kind |-> "absent", alg |-> Null, signer |-> 0],
     [kind |-> "empty", alg |-> Null, signer |-> 0]}
    \cup [kind : {"key"}, alg : {OTK_ALGORITHM, UNSIGNED_ALGORITHM}, signer : 0 .. NDev]

NoEntries == [d \in Dev |-> [kind |-> "absent", alg |-> Null, signer |-> 0]]

\* no response read yet
NoResponse == [received |-> FALSE, present |-> FALSE, entry |-> NoEntries]

\* the signers tried for the entry of device d: d itself, or another device,
\* which stands for every signature that does not verify with the key of d
Signers(d) == {d, (d % NDev) + 1}

\* the responses: one without one_time_keys (present is false), or one with
\* an entry per device; a key of the other algorithm comes properly signed
ClaimResponses ==
    {[received |-> TRUE, present |-> FALSE, entry |-> NoEntries]} \cup
    [received : {TRUE}, present : {TRUE},
     entry : {e \in [Dev -> KeyEntries] :
                \A d \in Dev :
                    /\ e[d].kind = "key" => e[d].signer \in Signers(d)
                    /\ e[d].alg = UNSIGNED_ALGORITHM => e[d].signer = d}]

\* verifyEd25519Signature(olmUtil, userId, deviceId, device.ed25519Key, keySection)
verifyEd25519Signature(d, keySection) == keySection.signer = d

\* Object.entries(userKeyMap) or Object.entries(deviceSection)[0] destructured
\* raises a TypeError: no one_time_keys, or a device section without a key
VerifyThrows(keyMap) ==
    \/ ~keyMap.present
    \/ \E d \in Dev : keyMap.entry[d].kind = "empty"

\* _verifyAndCreateOTKTargets without the lookup in devicesByUser
VerifiedDevices_NoDeviceCheck(keyMap, requested) ==
    {d \in Dev :
        /\ keyMap.entry[d].kind = "key"
        /\ keyMap.entry[d].alg = OTK_ALGORITHM
        /\ verifyEd25519Signature(d, keyMap.entry[d])}

\* _verifyAndCreateOTKTargets without the check of isValidSignature
VerifiedDevices_NoSignatureCheck(keyMap, requested) ==
    {d \in Dev :
        /\ keyMap.entry[d].kind = "key"
        /\ keyMap.entry[d].alg = OTK_ALGORITHM
        /\ d \in requested}

\* the devices _verifyAndCreateOTKTargets makes a target for; devicesByUser
\* holds the devices of the claim request
VerifiedDevices(keyMap, requested) ==
    {d \in Dev :
        /\ keyMap.entry[d].kind = "key"
        /\ keyMap.entry[d].alg = OTK_ALGORITHM
        /\ d \in requested
        /\ verifyEd25519Signature(d, keyMap.entry[d])}

\* --------------------------------------------------------------------- Init
Init ==
    /\ pc = "start"
    /\ blockScoped \in BOOLEAN
    /\ sessionIdsForDevice = [d \in Dev |-> << >>]
    /\ devicesWithoutSession = << >>
    /\ existingEncryptionTargets = << >>
    /\ target = [d \in Dev |-> NoTarget]
    /\ claimResponse = NoResponse
    /\ claimRequests = << >>
    /\ newEncryptionTargets = << >>
    /\ encryptionTargets = << >>
    /\ olm = [d \in Dev |-> NoSession]
    /\ failed = FALSE
    /\ load = [d \in Dev |-> "none"]
    /\ loadAll = [status |-> "none", error |-> Null]
    /\ eagerTxn = NoTxn
    /\ finalTxn = NoTxn
    /\ store = [d \in Dev |-> NoRecord]
    /\ idx = 0
    /\ messages = << >>
    /\ result = Running

\* encrypt settles by raising err: the finally block disposes encryptionTargets
\* (targets as in t, native objects as in o, list as in targets)
Throw(err, o, t, targets) ==
    /\ olm' = dispose(o, t, targets)
    /\ result' = Raised(err, pc)
    /\ pc' = "done"

\* ---------------------------------------------------- _findExistingSessions
FindExistingSessions ==
    /\ pc = "start"
    /\ \E ids \in [Dev -> IdLists] :
        /\ sessionIdsForDevice' = ids
        /\ devicesWithoutSession' = SelectSeq2(devices, {d \in Dev : Len(ids[d]) = 0})
        /\ existingEncryptionTargets' = SelectSeq2(devices, {d \in Dev : Len(ids[d]) > 0})
        /\ target' = [d \in Dev |->
                        IF Len(ids[d]) > 0
                        THEN fromSessionId(findFirstSessionId(ids[d]))
                        ELSE NoTarget]
    /\ pc' = "found"
    /\ UNCHANGED <<blockScoped, claimResponse, claimRequests,
                   newEncryptionTargets, encryptionTargets,
                   olm, failed, load, loadAll, eagerTxn, finalTxn, store, idx,
                   messages, result>>

\* a getSessionIds read rejects: encrypt raises before its try block
FindExistingSessionsFails ==
    /\ pc = "start"
    /\ pc' = "done"
    /\ result' = Raised("StorageError", pc)
    /\ UNCHANGED <<blockScoped, sessionIdsForDevice, devicesWithoutSession,
                   existingEncryptionTargets, target, claimResponse, claimRequests,
                   newEncryptionTargets,
                   encryptionTargets, olm, failed, load, loadAll, eagerTxn, finalTxn,
                   store, idx, messages>>

\* a claim request naming every device of the call
ClaimRequest_AllDevices(deviceIdentities) == Dev

\* _claimOneTimeKeys: the devices named in the one_time_keys object of the
\* request, one entry per user id and device id of deviceIdentities
ClaimRequest(deviceIdentities) == Range(deviceIdentities)

\* encrypt after _findExistingSessions returned: send the claim request when
\* there are
\* devices without a session, go on to the loads otherwise
BeginCreateOrLoad ==
    /\ pc = "found"
    /\ sessionIdsForDevice' = [d \in Dev |-> << >>]
    /\ pc' = IF Len(devicesWithoutSession) > 0 THEN "claim" ELSE "load"
    /\ claimRequests' = IF Len(devicesWithoutSession) > 0
                        THEN Append(claimRequests, ClaimRequest(devicesWithoutSession))
                        ELSE claimRequests
    /\ UNCHANGED <<blockScoped, devicesWithoutSession, existingEncryptionTargets,
                   target, claimResponse, newEncryptionTargets, encryptionTargets, olm,
                   failed, load, loadAll, eagerTxn, finalTxn, store, idx, messages,
                   result>>

\* ------------------------------------- _claimOneTimeKeys, _createNewSessions
\* the claim request fails (network): nothing was made yet
ClaimKeysFails ==
    /\ pc = "claim"
    /\ Throw("NetworkError", olm, target, encryptionTargets)
    /\ UNCHANGED <<blockScoped, sessionIdsForDevice, devicesWithoutSession,
                   existingEncryptionTargets, target, claimResponse, claimRequests,
                   newEncryptionTargets,
                   encryptionTargets, failed, load, loadAll, eagerTxn, finalTxn,
                   store, idx, messages>>

\* the claim response arrives; _verifyAndCreateOTKTargets runs on it.  The
\* response is walked in the order of the device list.
ClaimKeysResponds ==
    /\ pc = "claim"
    /\ \E response \in ClaimResponses :
        /\ claimResponse' = response
        /\ IF VerifyThrows(response)
           THEN /\ Throw("TypeError", olm, target, encryptionTargets)
                /\ UNCHANGED <<target, newEncryptionTargets>>
           ELSE LET verified == VerifiedDevices(response, Range(devicesWithoutSession))
                IN  /\ newEncryptionTargets' = SelectSeq2(devices, verified)
                    /\ target' = [d \in Dev |->
                                    IF d \in verified THEN fromOTK("otk") ELSE target[d]]
                    /\ pc' = "create"
                    /\ UNCHANGED <<olm, result>>
    /\ UNCHANGED <<blockScoped, sessionIdsForDevice, devicesWithoutSession,
                   existingEncryptionTargets, claimRequests, encryptionTargets, failed,
                   load, loadAll, eagerTxn, finalTxn, store, idx, messages>>

\* a store whose set() leaves a record alone that another writer has changed
Put_UnlessChanged(st, writes, tag) ==
    [d \in Dev |->
        IF (\E w \in writes : w.device = d) /\ st[d].txn # "other"
        THEN [txn |-> tag,
              ratchet |-> (CHOOSE w \in writes : w.device = d).ratchet,
              over |-> st[d].txn]
        ELSE st[d]]

\* txn.olmSessions.set(sessionEntry) for every write of a transaction, taking
\* effect when the transaction commits: set() replaces the record under the
\* key whatever it holds; over remembers whose record was replaced
Put(st, writes, tag) ==
    [d \in Dev |->
        IF \E w \in writes : w.device = d
        THEN [txn |-> tag,
              ratchet |-> (CHOOSE w \in writes : w.device = d).ratchet,
              over |-> st[d].txn]
        ELSE st[d]]

\* OpenTxn writing the records as they were before any encryption
OpenTxn_BeforeEncryption(o, targets, throws) ==
    IF throws
    THEN [status |-> "aborted", writes |-> {}]
    ELSE [status |-> "open",
          writes |-> {[device |-> d, ratchet |-> 0] : d \in Range(targets)}]

\* the synchronous part of _storeSessions(targets): one createSessionEntry and
\* set per target; a throw aborts the transaction
OpenTxn(o, targets, throws) ==
    IF throws
    THEN [status |-> "aborted", writes |-> {}]
    ELSE [status |-> "open",
          writes |-> {[device |-> d, ratchet |-> o[d].ratchet] : d \in Range(targets)}]

\* the loop of _createNewSessions, createOutboundOlmSession throwing at the
\* k-th target (none when k is past the list), and what follows it: the catch
\* block disposing every new target, or _storeSessions called without await
CreateNewSessions ==
    /\ pc = "create"
    /\ \E k \in 1 .. Len(newEncryptionTargets) + 1 :
        LET assigned == {newEncryptionTargets[i] : i \in 1 .. k - 1}
            t1 == [d \in Dev |->
                     IF d \in assigned
                     THEN [target[d] EXCEPT !.session = Handle]
                     ELSE target[d]]
            o1 == [d \in Dev |->
                     IF d \in assigned
                     THEN [olm[d] EXCEPT !.allocs = @ + 1]
                     ELSE olm[d]]
        IN  /\ target' = t1
            /\ IF k <= Len(newEncryptionTargets)
               THEN /\ olm' = dispose(o1, t1, newEncryptionTargets)
                    /\ UNCHANGED eagerTxn
               ELSE /\ olm' = o1
                    /\ \E throws \in {FALSE, Len(newEncryptionTargets) > 0} :
                        eagerTxn' = OpenTxn(o1, newEncryptionTargets, throws)
    /\ pc' = "load"
    /\ UNCHANGED <<blockScoped, sessionIdsForDevice, devicesWithoutSession,
                   existingEncryptionTargets, claimResponse, claimRequests,
                   newEncryptionTargets,
                   encryptionTargets, failed, load, loadAll, finalTxn, store, idx,
                   messages, result>>

\* The unawaited transaction completes or fails; its rejection has no handler.
\* The completion is an event of the store: it arrives while encrypt waits for
\* the store or after it settled, never inside a synchronous stretch.
EagerTxnCompletes ==
    /\ eagerTxn.status = "open"
    /\ pc \in {"loading", "storing", "done"}
    /\ \E ok \in BOOLEAN :
        IF ok
        THEN /\ eagerTxn' = [eagerTxn EXCEPT !.status = "committed"]
             /\ store' = Put(store, eagerTxn.writes, "eager")
        ELSE /\ eagerTxn' = [eagerTxn EXCEPT !.status = "failed"]
             /\ UNCHANGED store
    /\ UNCHANGED <<pc, blockScoped, sessionIdsForDevice, devicesWithoutSession,
                   existingEncryptionTargets, target, claimResponse, claimRequests,
                   newEncryptionTargets,
                   encryptionTargets, olm, failed, load, loadAll, finalTxn, idx,
                   messages, result>>

\* a second encrypt call running on the same Encryption object commits its
\* _storeSessions for device d: nothing orders it with this call, which has
\* read the record of d and not yet written it (the comment above the
\* _loadSessions call).  Its record continues the one this call loaded; it is
\* followed from the return of _loadSessions on.
OtherWriterUpdates(d) ==
    /\ pc \in {"encrypt", "storing"}
    /\ d \in Range(existingEncryptionTargets)
    /\ load[d] = "fulfilled"
    /\ target[d].session # Null
    /\ store[d].txn = "none"
    /\ store' = [store EXCEPT ![d] = [txn |-> "other",
                                      ratchet |-> store[d].ratchet + 1,
                                      over |-> store[d].txn]]
    /\ UNCHANGED <<pc, blockScoped, sessionIdsForDevice, devicesWithoutSession,
                   existingEncryptionTargets, target, claimResponse, claimRequests,
                   newEncryptionTargets, encryptionTargets, olm, failed, load,
                   loadAll, eagerTxn, finalTxn, idx, messages, result>>

\* ------------------------------------------------------------ _loadSessions
\* encrypt after _createNewSessions: the new targets join encryptionTargets
\* and _loadSessions issues one read per existing target; with no existing
\* target Promise.all resolves at once and encrypt goes on to the map
StartLoadSessions ==
    /\ pc = "load"
    /\ IF Len(existingEncryptionTargets) = 0
       THEN /\ encryptionTargets' =
                    (encryptionTargets \o newEncryptionTargets) \o existingEncryptionTargets
            /\ loadAll' = [status |-> "resolved", error |-> Null]
            /\ idx' = 1
            /\ pc' = "encrypt"
            /\ UNCHANGED load
       ELSE /\ encryptionTargets' = encryptionTargets \o newEncryptionTargets
            /\ loadAll' = [status |-> "pending", error |-> Null]
            /\ load' = [d \in Dev |->
                          IF d \in Range(existingEncryptionTargets) THEN "pending" ELSE load[d]]
            /\ pc' = "loading"
            /\ UNCHANGED idx
    /\ UNCHANGED <<blockScoped, sessionIdsForDevice, devicesWithoutSession,
                   existingEncryptionTargets, target, claimResponse, claimRequests,
                   newEncryptionTargets,
                   olm, failed, eagerTxn, finalTxn, store, messages, result>>

\* Promise.all rejects with the first rejection
Reject(all, err) ==
    IF all.status = "pending" THEN [status |-> "rejected", error |-> err] ELSE all

\* the condition of the load task without the test of failed
LoadAssigns_Always(hasFailed) == TRUE

\* sessionEntry && !failed, for a sessionEntry that is there
LoadAssigns(hasFailed) == ~hasFailed

\* one load task after its storage read settled: the read rejects ("error"),
\* returns no entry ("absent"), returns an entry ("entry"), or returns an entry
\* whose unpickle throws ("badpickle").  A task that got an entry and left it
\* alone because failed was set ends as "skipped".
LoadSessionResolves(d) ==
    /\ load[d] = "pending"
    /\ \E read \in {"error", "absent", "entry", "badpickle"} :
        CASE read = "error" ->
                /\ load' = [load EXCEPT ![d] = "StorageError"]
                /\ loadAll' = Reject(loadAll, "StorageError")
                /\ UNCHANGED <<olm, target>>
          [] read = "absent" ->
                /\ load' = [load EXCEPT ![d] = "fulfilled"]
                /\ UNCHANGED <<olm, target, loadAll>>
          [] read = "entry" ->
                /\ load' = [load EXCEPT ![d] =
                                IF LoadAssigns(failed) THEN "fulfilled" ELSE "skipped"]
                /\ IF LoadAssigns(failed)
                   THEN /\ olm' = [olm EXCEPT ![d].allocs = @ + 1]
                        /\ target' = [target EXCEPT ![d].session = Handle]
                   ELSE UNCHANGED <<olm, target>>
                /\ UNCHANGED loadAll
          [] read = "badpickle" ->
                IF LoadAssigns(failed)
                THEN /\ load' = [load EXCEPT ![d] = "OlmError"]
                     /\ olm' = [olm EXCEPT ![d].allocs = @ + 1]
                     /\ loadAll' = Reject(loadAll, "OlmError")
                     /\ UNCHANGED target
                ELSE /\ load' = [load EXCEPT ![d] = "skipped"]
                     /\ UNCHANGED <<olm, target, loadAll>>
    /\ UNCHANGED <<pc, blockScoped, sessionIdsForDevice, devicesWithoutSession,
                   existingEncryptionTargets, claimResponse, claimRequests,
                   newEncryptionTargets,
                   encryptionTargets, failed, eagerTxn, finalTxn, store, idx,
                   messages, result>>

\* the catch block of _loadSessions without its loop over the targets
LoadSessionsCatch_NoDispose ==
    /\ pc = "loading"
    /\ loadAll.status = "rejected"
    /\ failed' = TRUE
    /\ Throw(loadAll.error, olm, target, encryptionTargets)
    /\ UNCHANGED <<blockScoped, sessionIdsForDevice, devicesWithoutSession,
                   existingEncryptionTargets, target, claimResponse, claimRequests,
                   newEncryptionTargets,
                   encryptionTargets, load, loadAll, eagerTxn, finalTxn, store, idx,
                   messages>>

\* the catch block of _loadSessions, then the finally block of encrypt
LoadSessionsCatch ==
    /\ pc = "loading"
    /\ loadAll.status = "rejected"
    /\ failed' = TRUE
    /\ Throw(loadAll.error,
             dispose(olm, target, existingEncryptionTargets), target, encryptionTargets)
    /\ UNCHANGED <<blockScoped, sessionIdsForDevice, devicesWithoutSession,
                   existingEncryptionTargets, target, claimResponse, claimRequests,
                   newEncryptionTargets,
                   encryptionTargets, load, loadAll, eagerTxn, finalTxn, store, idx,
                   messages>>

\* every load task fulfilled: _loadSessions returns, the existing targets join
LoadSessionsReturns ==
    /\ pc = "loading"
    /\ loadAll.status = "pending"
    /\ \A d \in Dev : load[d] # "pending"
    /\ loadAll' = [status |-> "resolved", error |-> Null]
    /\ encryptionTargets' = encryptionTargets \o existingEncryptionTargets
    /\ idx' = 1
    /\ pc' = "encrypt"
    /\ UNCHANGED <<blockScoped, sessionIdsForDevice, devicesWithoutSession,
                   existingEncryptionTargets, target, claimResponse, claimRequests,
                   newEncryptionTargets,
                   olm, failed, load, eagerTxn, finalTxn, store, messages, result>>

\* ------------------------------------------- encrypt: map, store, finally
\* One call of the map callback, for the target at idx.  The callback declares
\* const content and reads content in its initialiser: with block scoping kept
\* the read raises a ReferenceError, compiled to var it reads undefined and
\* _encryptForDevice runs.  session.encrypt on a null session is a TypeError;
\* on a freed native session it may throw or return anything.
EncryptForDevice ==
    /\ pc = "encrypt"
    /\ idx <= Len(encryptionTargets)
    /\ LET d == encryptionTargets[idx]
           used == [olm EXCEPT ![d].usedAfterFree = TRUE]
       IN  IF blockScoped
           THEN /\ Throw("ReferenceError", olm, target, encryptionTargets)
                /\ UNCHANGED <<idx, messages>>
           ELSE IF target[d].session = Null
           THEN /\ Throw("TypeError", olm, target, encryptionTargets)
                /\ UNCHANGED <<idx, messages>>
           ELSE IF olm[d].frees > 0
           THEN \E throws \in BOOLEAN :
                    IF throws
                    THEN /\ Throw("OlmError", used, target, encryptionTargets)
                         /\ UNCHANGED <<idx, messages>>
                    ELSE /\ olm' = [used EXCEPT ![d].ratchet = @ + 1]
                         /\ messages' = Append(messages, d)
                         /\ idx' = idx + 1
                         /\ UNCHANGED <<pc, result>>
           ELSE /\ olm' = [olm EXCEPT ![d].ratchet = @ + 1]
                /\ messages' = Append(messages, d)
                /\ idx' = idx + 1
                /\ UNCHANGED <<pc, result>>
    /\ UNCHANGED <<blockScoped, sessionIdsForDevice, devicesWithoutSession,
                   existingEncryptionTargets, target, claimResponse, claimRequests,
                   newEncryptionTargets,
                   encryptionTargets, failed, load, loadAll, eagerTxn, finalTxn,
                   store>>

\* the devices of the list whose native session was freed already
Freed(o, targets) == {d \in Range(targets) : o[d].frees > 0}

\* encrypt after the map: the synchronous part of the awaited _storeSessions.
\* createSessionEntry pickles every target's session; a throw there aborts the
\* transaction and is re-raised.
StoreSessions ==
    /\ pc = "encrypt"
    /\ idx > Len(encryptionTargets)
    /\ LET used == [d \in Dev |->
                      IF d \in Freed(olm, encryptionTargets)
                      THEN [olm[d] EXCEPT !.usedAfterFree = TRUE]
                      ELSE olm[d]]
       IN  \E throws \in {FALSE, Len(encryptionTargets) > 0} :
            /\ finalTxn' = OpenTxn(used, encryptionTargets, throws)
            /\ IF throws
               THEN Throw("PickleError", used, target, encryptionTargets)
               ELSE /\ olm' = used
                    /\ pc' = "storing"
                    /\ UNCHANGED result
    /\ UNCHANGED <<blockScoped, sessionIdsForDevice, devicesWithoutSession,
                   existingEncryptionTargets, target, claimResponse, claimRequests,
                   newEncryptionTargets,
                   encryptionTargets, failed, load, loadAll, eagerTxn, store, idx,
                   messages>>

\* FinalTxnCompletes with the rejection of txn.complete() not propagated
FinalTxnCompletes_Swallowed ==
    /\ pc = "storing"
    /\ \E ok \in BOOLEAN :
        /\ finalTxn' = [finalTxn EXCEPT !.status = IF ok THEN "committed" ELSE "failed"]
        /\ store' = IF ok THEN Put(store, finalTxn.writes, "final") ELSE store
        /\ result' = Returned(messages, pc)
        /\ olm' = dispose(olm, target, encryptionTargets)
        /\ pc' = "done"
    /\ UNCHANGED <<blockScoped, sessionIdsForDevice, devicesWithoutSession,
                   existingEncryptionTargets, target, claimResponse, claimRequests,
                   newEncryptionTargets,
                   encryptionTargets, failed, load, loadAll, eagerTxn, idx, messages>>

\* txn.complete() of the awaited _storeSessions settles: encrypt returns the
\* messages or raises, and the finally block disposes every target
FinalTxnCompletes ==
    /\ pc = "storing"
    /\ \E ok \in BOOLEAN :
        IF ok
        THEN /\ finalTxn' = [finalTxn EXCEPT !.status = "committed"]
             /\ store' = Put(store, finalTxn.writes, "final")
             /\ result' = Returned(messages, pc)
             /\ olm' = dispose(olm, target, encryptionTargets)
             /\ pc' = "done"
        ELSE /\ finalTxn' = [finalTxn EXCEPT !.status = "failed"]
             /\ Throw("StorageError", olm, target, encryptionTargets)
             /\ UNCHANGED store
    /\ UNCHANGED <<blockScoped, sessionIdsForDevice, devicesWithoutSession,
                   existingEncryptionTargets, target, claimResponse, claimRequests,
                   newEncryptionTargets,
                   encryptionTargets, failed, load, loadAll, eagerTxn, idx, messages>>

\* --------------------------------------------------------------------- Next
Next ==
    \/ FindExistingSessions
    \/ FindExistingSessionsFails
    \/ BeginCreateOrLoad
    \/ ClaimKeysFails
    \/ ClaimKeysResponds
    \/ CreateNewSessions
    \/ EagerTxnCompletes
    \/ StartLoadSessions
    \/ \E d \in Dev : LoadSessionResolves(d)
    \/ LoadSessionsCatch
    \/ LoadSessionsReturns
    \/ \E d \in Dev : OtherWriterUpdates(d)
    \/ EncryptForDevice
    \/ StoreSessions
    \/ FinalTxnCompletes

Spec == Init /\ [][Next]_vars

\* =================================================================== claims
Settled == result.status # "running"

\* the errors the design calls batch-fatal: storage reads and writes, the
\* key-claim request
BatchFatalErrors == {"StorageError", "PickleError", "NetworkError"}

\* C1: on every exit path of encrypt, each EncryptionTarget that ever had a
\* session assigned has that session's free() invoked exactly once: never
\* twice at any time, and once when the call has settled.
C1_FreedExactlyOnce ==
    \A d \in Dev :
        /\ olm[d].frees <= 1
        /\ (Settled /\ target[d].session # Null) => olm[d].frees = 1

\* a device whose session was assigned and stayed alive until the finally
\* block of encrypt released it
HeldLiveSession(d) == target[d].session # Null /\ olm[d].frees = 1

\* C2: when no batch-fatal error occurs, a call that got to the encryption of
\* its targets returns exactly one EncryptedMessage for every device that ended
\* up with a usable session and none for any other device, without duplicates.
C2_OneMessagePerUsableSession ==
    (Settled /\ result.at \in {"encrypt", "storing"}
             /\ result.error \notin BatchFatalErrors) =>
        /\ result.status = "returned"
        /\ Range(result.messages) = {d \in Dev : HeldLiveSession(d)}
        /\ Len(result.messages) = Cardinality(Range(result.messages))

\* the devices of the claim request
Requested == Range(devicesWithoutSession)

\* the response holds a key for d of the wrong algorithm or not signed by d
BadKey(d) ==
    /\ claimResponse.received /\ claimResponse.present
    /\ d \in Requested
    /\ claimResponse.entry[d].kind = "key"
    /\ \/ claimResponse.entry[d].alg # OTK_ALGORITHM
       \/ claimResponse.entry[d].signer # d

\* the response holds a signed_curve25519 key for d, signed by d
GoodKey(d) ==
    /\ claimResponse.received /\ claimResponse.present
    /\ d \in Requested
    /\ claimResponse.entry[d].kind = "key"
    /\ claimResponse.entry[d].alg = OTK_ALGORITHM
    /\ claimResponse.entry[d].signer = d

\* a response in which every device section that is there holds a key
WellFormed ==
    /\ claimResponse.received /\ claimResponse.present
    /\ \A d \in Dev : claimResponse.entry[d].kind # "empty"

RaisedAtClaim == result.status = "raised" /\ result.at = "claim"

\* C3: a device whose claimed key has another algorithm than signed_curve25519
\* or fails signature verification gets no target and no session, and no
\* message; the verification raises nothing over it; the devices with a good
\* key get their targets; a call whose devices all have such a key raises only
\* if its (empty) write transaction fails.
C3_BadKeyDropped ==
    \A d \in Dev :
        BadKey(d) =>
            /\ ~target[d].made
            /\ olm[d].allocs = 0
            /\ d \notin Range(messages) \cup Range(result.messages)
            /\ WellFormed => ~RaisedAtClaim
            /\ WellFormed =>
                \A g \in Dev : GoodKey(g) =>
                    target[g].made /\ g \in Range(newEncryptionTargets)
            /\ ((\A e \in Dev : BadKey(e)) /\ Settled) =>
                    result.error \in {Null, "StorageError"}

\* C3 witness: a call returned the message of a device with a good key while
\* another device of the claim had a bad key
C3_Witness ==
    /\ result.status = "returned"
    /\ \E d, g \in Dev :
        /\ BadKey(d)
        /\ GoodKey(g)
        /\ g \in Range(result.messages)

\* the claim for d gave no key: no one_time_keys, no section, an empty section
ClaimFailedFor(d) ==
    /\ claimResponse.received
    /\ d \in Requested
    /\ \/ ~claimResponse.present
       \/ claimResponse.entry[d].kind \in {"absent", "empty"}

\* C4: a failed key claim for one device drops only that device: no exception
\* is raised over it, it gets no target and no message, and the devices with a
\* good key get their targets.
C4_FailedClaimDropsOnlyDevice ==
    \A d \in Dev :
        ClaimFailedFor(d) =>
            /\ ~RaisedAtClaim
            /\ ~target[d].made
            /\ d \notin Range(messages) \cup Range(result.messages)
            /\ \A g \in Dev : GoodKey(g) =>
                    target[g].made /\ g \in Range(newEncryptionTargets)

\* _createNewSessions is over
PastCreate ==
    \/ pc \in {"load", "loading", "encrypt", "storing"}
    \/ pc = "done" /\ result.at \notin {"start", "claim"}

\* d has a target made from a one-time key that got no session
CreationFailed(d) ==
    /\ PastCreate
    /\ target[d].oneTimeKey # Null
    /\ target[d].session = Null

\* C5: if native session creation fails for a device and no batch-fatal error
\* occurs, encrypt returns normally, without a message for that device and
\* with the messages of the devices that hold a usable session.
C5_CreationFailureSilent ==
    (Settled /\ result.error \notin BatchFatalErrors
             /\ \E d \in Dev : CreationFailed(d)) =>
        /\ result.status = "returned"
        /\ \A d \in Dev : CreationFailed(d) => d \notin Range(result.messages)
        /\ \A d \in Dev : HeldLiveSession(d) => d \in Range(result.messages)

\* some target made from a one-time key got no session: createOutboundOlmSession
\* threw in the loop of _createNewSessions
CreateThrew == \E d \in Dev : CreationFailed(d)

\* C6: for every device with zero existing sessions and a correctly signed
\* one-time-key claim, exactly one session is created in the call (when session
\* creation does not throw), and the eager write transaction has committed its
\* Session Record before the first encryption with that session.
C6_CreatedOnceAndPersistedBeforeEncrypt ==
    \A d \in Dev :
        GoodKey(d) =>
            /\ olm[d].allocs <= 1
            /\ (PastCreate /\ ~CreateThrew) => olm[d].allocs = 1
            /\ (olm[d].ratchet > 0 /\ ~CreateThrew) =>
                    /\ eagerTxn.status = "committed"
                    /\ store[d].txn # "none"

Existing == Range(existingEncryptionTargets)

\* the store holds a record of device d that this call wrote
OwnRecord(d) == store[d].txn \in {"eager", "final"}

\* the transaction was to write records and failed: aborted by a throw of
\* createSessionEntry or set, or rejected by complete()
WriteFailed(txn) ==
    \/ txn.status = "aborted"
    \/ txn.status = "failed" /\ txn.writes # {}

\* C7 as claimed: if the write transaction of an encrypt call fails, then after
\* the call no Session Record written by the call, for a new session or a
\* loaded one, is visible in the store, and the call has raised, returning no
\* messages.
C7_FailedWriteLeavesNothing ==
    (Settled /\ WriteFailed(finalTxn)) =>
        /\ \A d \in Dev : ~OwnRecord(d)
        /\ result.status = "raised"
        /\ result.messages = << >>

\* C7 as amended: if the write transaction that encrypt awaits fails, then
\* after the call none of the writes of that transaction is visible, so no
\* record of a loaded session at all, and the call has raised, returning no
\* messages; the only records of the call in the store are those of newly
\* created sessions that its separate eager transaction committed.
C7_FailedFinalWriteIsAtomic ==
    (Settled /\ WriteFailed(finalTxn)) =>
        /\ \A d \in Dev : store[d].txn # "final"
        /\ \A d \in Existing : ~OwnRecord(d)
        /\ \A d \in Dev :
            store[d].txn = "eager" =>
                /\ eagerTxn.status = "committed"
                /\ d \in Range(newEncryptionTargets)
        /\ result.status = "raised"
        /\ result.messages = << >>

\* C7 witness: the awaited transaction failed with writes for a new and for a
\* loaded session; the eager record of the new one is all that is visible
C7_Witness ==
    /\ Settled
    /\ finalTxn.status = "failed"
    /\ \E d \in Range(newEncryptionTargets), e \in Existing :
        /\ \E w \in finalTxn.writes : w.device = d
        /\ \E w \in finalTxn.writes : w.device = e
        /\ store[d].txn = "eager"
        /\ ~OwnRecord(e)

\* C8: if a session load of the batch fails with a storage error, then once
\* the call has settled, whatever the order of the load completions: every
\* existing target that got a session has had it freed (once), the call has
\* raised the error that rejected the loads and returned no messages, and no
\* Session Record was written for a target with an existing session.
C8_LoadFailureReleasesAndRaises ==
    (Settled /\ \E d \in Dev : load[d] = "StorageError") =>
        /\ \A e \in Existing : target[e].session # Null => olm[e].frees = 1
        /\ \A e \in Existing : target[e].session = Null => olm[e].frees = 0
        /\ result.status = "raised"
        /\ result.error = loadAll.error
        /\ result.error \in {"StorageError", "OlmError"}
        /\ result.messages = << >> /\ messages = << >>
        /\ finalTxn.status = "none"
        /\ \A e \in Existing :
            /\ ~OwnRecord(e)
            /\ \A w \in eagerTxn.writes : w.device # e

\* C8 witness: the load of one device failed after the load of another one
\* had assigned its session, which the call freed before it raised
C8_Witness ==
    /\ result.status = "raised"
    /\ result.error = "StorageError"
    /\ \E d, e \in Existing :
        /\ load[d] = "StorageError"
        /\ load[e] = "fulfilled"
        /\ target[e].session # Null
        /\ olm[e].frees = 1

RECURSIVE SeqLexLess(_, _)
\* x comes before y in the lexicographic order of sequences of code units
SeqLexLess(x, y) ==
    IF y = << >> THEN FALSE
    ELSE IF x = << >> THEN TRUE
    ELSE IF Head(x) # Head(y) THEN Head(x) < Head(y)
    ELSE SeqLexLess(Tail(x), Tail(y))

\* C9: for every device with stored session ids, the session id of its target
\* is the lexicographically smallest of them, and it is the one selected for
\* every other order in which the store can return the same ids.
C9_SmallestSessionIdSelected ==
    pc = "found" =>
        \A d \in Dev :
            Len(sessionIdsForDevice[d]) > 0 =>
                /\ target[d].sessionId \in Range(sessionIdsForDevice[d])
                /\ \A s \in Range(sessionIdsForDevice[d]) :
                    \/ s = target[d].sessionId
                    \/ SeqLexLess(CodeUnits(target[d].sessionId), CodeUnits(s))
                /\ \A l \in IdLists :
                    Range(l) = Range(sessionIdsForDevice[d]) =>
                        findFirstSessionId(l) = target[d].sessionId

\* C9 witness: the store returned s3 before s1 for a device and s1 is selected
C9_Witness ==
    /\ pc = "found"
    /\ \E d \in Dev :
        /\ sessionIdsForDevice[d] = <<"s3", "s1">>
        /\ target[d].sessionId = "s1"

\* C10: when the first session.encrypt of a call is about to run (the map is
\* at its first target, which has a session, in a build where the callback
\* gets that far), session creation and all loads have finished and every
\* target of the batch holds a live session: assigned and not freed.
C10_AllLiveAtFirstEncrypt ==
    (/\ pc = "encrypt" /\ ~blockScoped
     /\ idx = 1 /\ idx <= Len(encryptionTargets)
     /\ target[encryptionTargets[1]].session # Null) =>
        /\ \A d \in Dev : load[d] # "pending"
        /\ \A d \in Range(encryptionTargets) :
            /\ target[d].session # Null
            /\ olm[d].frees = 0

\* C11: once the load phase is marked failed (its targets released, the call
\* raised), a load that completes later assigns no session and allocates
\* none, and no target holds a session that was not freed.
C11_NoAssignmentAfterFailure ==
    failed =>
        /\ result.status = "raised"
        /\ \A d \in Dev :
            /\ target[d].session # Null => olm[d].frees >= 1
            /\ load[d] = "skipped" => (target[d].session = Null /\ olm[d].allocs = 0)

\* C11 witness: a read returned its entry after the load phase had failed
C11_Witness ==
    /\ failed
    /\ \E d, e \in Existing :
        /\ load[d] \in {"StorageError", "OlmError"}
        /\ load[e] = "skipped"

\* C12: when the call returns, one committed transaction holds a record for
\* every target of the batch, pickled after that target's encryption, and no
\* session was released before that transaction completed: while it is open
\* every target holds a live session, and on return each was freed once.
C12_StoredAllBeforeRelease ==
    /\ pc = "storing" =>
            \A d \in Range(encryptionTargets) :
                target[d].session # Null /\ olm[d].frees = 0
    /\ result.status = "returned" =>
            /\ finalTxn.status = "committed"
            /\ {w.device : w \in finalTxn.writes} = Range(encryptionTargets)
            /\ Cardinality(finalTxn.writes) = Len(encryptionTargets)
            /\ Len(result.messages) = Len(encryptionTargets)
            /\ \A w \in finalTxn.writes :
                /\ w.ratchet = olm[w.device].ratchet
                /\ w.ratchet >= 1
                /\ olm[w.device].frees = 1
                /\ ~olm[w.device].usedAfterFree

\* C12 witness: a returned call whose batch had a created and a loaded target
C12_Witness ==
    /\ result.status = "returned"
    /\ \E d, e \in Range(encryptionTargets) :
        /\ d \in Range(newEncryptionTargets)
        /\ e \in Existing
        /\ \E w \in finalTxn.writes : w.device = d
        /\ \E w \in finalTxn.writes : w.device = e

\* C13: a call in which a write transaction (the eager one of the created
\* sessions or the final one of the batch) has failed does not go on to
\* return messages.
C13_NoReturnAfterFailedWrite ==
    [][ ( /\ result.status = "running"
          /\ (WriteFailed(eagerTxn) \/ WriteFailed(finalTxn)) )
        => result'.status # "returned" ]_vars

\* C14: no encrypt or pickle operation is performed on a session after its
\* free().
C14_NoUseAfterFree == \A d \in Dev : ~olm[d].usedAfterFree

\* the session lookup of the call has returned
LookedUp == pc # "start" /\ ~(result.status = "raised" /\ result.at = "start")

\* C15: the lookup splits the devices into those with an existing session and
\* those that need one, each device in exactly one part; at most one claim
\* request is sent, naming exactly the devices with no stored session id and
\* sent only when there is such a device, and no session is created for a
\* device with an existing session id.
C15_PartitionAndOneClaim ==
    /\ LookedUp =>
            /\ Requested \cap Existing = {}
            /\ Requested \cup Existing = Dev
            /\ Len(devicesWithoutSession) + Len(existingEncryptionTargets) = NDev
    /\ pc = "found" =>
            /\ Requested = {d \in Dev : Len(sessionIdsForDevice[d]) = 0}
            /\ Existing = {d \in Dev : Len(sessionIdsForDevice[d]) > 0}
    /\ Len(claimRequests) <= 1
    /\ \A i \in DOMAIN claimRequests :
            claimRequests[i] = Requested /\ claimRequests[i] # {}
    /\ (LookedUp /\ pc # "found" /\ Requested # {}) => Len(claimRequests) = 1
    /\ \A d \in Existing :
            /\ d \notin Range(newEncryptionTargets)
            /\ target[d].oneTimeKey = Null
            /\ olm[d].allocs > 0 => load[d] # "none"

\* C15 witness: a mixed batch, its one request sent for the device without
\* session only, the other device's session loaded
C15_Witness ==
    /\ Len(claimRequests) = 1
    /\ \E d, e \in Dev :
        /\ d \in claimRequests[1]
        /\ e \in Existing
        /\ e \notin claimRequests[1]
        /\ target[d].session # Null
        /\ target[e].session # Null

\* C16: the final write of a call is made without looking at what the store
\* holds: once its transaction has committed, the record of every loaded
\* target is the one pickled from the session this call read, also where
\* another writer had updated that record after the read, and that update is
\* gone.
C16_StaleWriteReplaces ==
    finalTxn.status = "committed" =>
        \A e \in Existing \cap Range(encryptionTargets) :
            /\ store[e].txn = "final"
            /\ store[e].ratchet = olm[e].ratchet
            /\ store[e].over \in {"none", "other"}

\* C16 witness: a returned call whose write replaced a record that another
\* writer had updated between this call's load and its persist
C16_Witness ==
    /\ result.status = "returned"
    /\ \E e \in Existing :
        /\ load[e] = "fulfilled"
        /\ store[e].txn = "final"
        /\ store[e].over = "other"
        /\ store[e].ratchet = olm[e].ratchet

\* C17: every EncryptionTarget of the call holds exactly one of a one-time
\* key and a session id, the first when it was made from the claim response
\* and the second when it was made by the lookup; a native session is made
\* for a target at most once, so its session field is assigned at most once
\* and it never holds more than one session object.
C17_OneOfKeyOrIdAndOneSession ==
    \A d \in Dev :
        /\ target[d].made =>
                (target[d].oneTimeKey # Null) # (target[d].sessionId # Null)
        /\ ~target[d].made =>
                /\ target[d].oneTimeKey = Null /\ target[d].sessionId = Null
                /\ target[d].session = Null
        /\ (LookedUp /\ d \in Existing) <=> target[d].sessionId # Null
        /\ d \in Range(newEncryptionTargets) <=> target[d].oneTimeKey # Null
        /\ olm[d].allocs <= 1
        /\ target[d].session # Null => (target[d].made /\ olm[d].allocs = 1)

\* C17 witness: a target made from a one-time key and a target made from a
\* session id, each with its session assigned
C17_Witness ==
    \E d, e \in Dev :
        /\ target[d].oneTimeKey # Null /\ target[d].session # Null
        /\ target[e].sessionId # Null /\ target[e].session # Null

\* C18: every target made from the claim response is for a device named in
\* the claim request, and the response holds for it a signed_curve25519 key
\* signed by that device itself; an entry for a device that was not
\* requested gives no target, and a requested device gets at most one.
C18_TargetsOnlyForRequestedAndVerified ==
    /\ \A d \in Dev :
        target[d].oneTimeKey # Null =>
            /\ Len(claimRequests) = 1 /\ d \in claimRequests[1]
            /\ GoodKey(d)
            /\ verifyEd25519Signature(d, claimResponse.entry[d])
    /\ \A i \in DOMAIN newEncryptionTargets :
        /\ Len(claimRequests) = 1 /\ newEncryptionTargets[i] \in claimRequests[1]
        /\ \A j \in DOMAIN newEncryptionTargets :
                newEncryptionTargets[i] = newEncryptionTargets[j] => i = j
    /\ Len(newEncryptionTargets) <= Len(devicesWithoutSession)

\* C18 witness: the response held a well signed key for a device that was not
\* requested, which got no target from it, next to one for a requested device,
\* which did
C18_Witness ==
    /\ pc = "create"
    /\ \E d, e \in Dev :
        /\ d \in claimRequests[1]
        /\ target[d].oneTimeKey # Null
        /\ e \notin claimRequests[1]
        /\ claimResponse.entry[e].kind = "key"
        /\ claimResponse.entry[e].alg = OTK_ALGORITHM
        /\ claimResponse.entry[e].signer = e
        /\ target[e].oneTimeKey = Null
        /\ e \notin Range(newEncryptionTargets)

\* C19: when the call has settled, every native session object that was
\* allocated during it, by session creation or by a load, has been freed.
C19_EveryAllocationFreed ==
    Settled => \A d \in Dev : olm[d].frees >= olm[d].allocs

====
